---- MODULE Spec2Model ----
(***************************************************************************)
(* The recurrent-model invocation contract of rllib/models/base_model.py   *)
(* (RecurrentModel.initial_state, RecurrentModel.unroll, the non-recurrent *)
(* Model adapter) over the spec-validated tensor dictionaries it is built  *)
(* on (TensorDict.filter, SpecDict.validate).                              *)
(*                                                                         *)
(* A tensor is the record [shape, dtype, data]: the layer looks at shape   *)
(* and dtype only, data names the values it carries.  A TensorDict is a    *)
(* function from paths (dot-joined, written as strings) to tensors.  A     *)
(* SpecDict is the sequence, in declaration order, of its entries          *)
(* [path, tokens, dtype]; an axis token is [sym, fixed] with fixed = 0     *)
(* for a free symbol and fixed = n > 0 for a literal or a symbol bound at  *)
(* construction of the Spec.                                               *)
(***************************************************************************)
EXTENDS Integers, Sequences, FiniteSets, TLC

\* B, T = 6, 8 of the tests
B == 6
T == 8
\* a second batch size, the first axis of the tests' "bork" tensor
B2 == 5

Symbols == {"b", "t", "h"}
NoDtype == "any"

Tok(sym, fixed) == [sym |-> sym, fixed |-> fixed]
Entry(path, tokens, dtype) == [path |-> path, tokens |-> tokens, dtype |-> dtype]
Tensor(shape, dtype, data) == [shape |-> shape, dtype |-> dtype, data |-> data]

\* TensorDict(): the dictionary without keys
EmptyDict == [p \in {} |-> Tensor(<<>>, NoDtype, "none")]
\* SpecDict(): the spec without declared paths
EmptySpec == <<>>

Keys(d) == DOMAIN d
SpecKeys(s) == {s[i].path : i \in 1..Len(s)}

----------------------------------------------------------------------------
(* SpecDict.validate                                                       *)

EmptyEnv == [y \in Symbols |-> 0]

\* one axis of one declared path: the binding environment after it, or the
\* failure
RECURSIVE CheckAxes(_, _, _, _)
CheckAxes(tokens, shape, j, env) ==
    IF j > Len(tokens) THEN [err |-> "ok", env |-> env]
    ELSE LET tk == tokens[j]
             dim == shape[j]
         IN IF tk.fixed # 0
            THEN IF dim = tk.fixed
                 THEN CheckAxes(tokens, shape, j + 1, env)
                 ELSE [err |-> "ShapeMismatchError", env |-> env]
            ELSE IF env[tk.sym] = 0
                 THEN CheckAxes(tokens, shape, j + 1, [env EXCEPT ![tk.sym] = dim])
                 ELSE IF env[tk.sym] = dim
                      THEN CheckAxes(tokens, shape, j + 1, env)
                      ELSE [err |-> "ShapeMismatchError", env |-> env]

\* bindings that last for one Spec, not for the validate call
RECURSIVE CheckEntries_per_spec(_, _, _, _)
CheckEntries_per_spec(s, d, i, env) ==
    IF i > Len(s) THEN "ok"
    ELSE LET e == s[i]
             x == d[e.path]
         IN IF Len(x.shape) # Len(e.tokens) THEN "ShapeMismatchError"
            ELSE LET r == CheckAxes(e.tokens, x.shape, 1, EmptyEnv)
                 IN IF r.err # "ok" THEN r.err
                    ELSE IF e.dtype # NoDtype /\ x.dtype # e.dtype
                         THEN "DtypeMismatchError"
                         ELSE CheckEntries_per_spec(s, d, i + 1, EmptyEnv)

\* steps 2-4 for the declared paths i.. in declaration order
RECURSIVE CheckEntries(_, _, _, _)
CheckEntries(s, d, i, env) ==
    IF i > Len(s) THEN "ok"
    ELSE LET e == s[i]
             x == d[e.path]
         IN IF Len(x.shape) # Len(e.tokens) THEN "ShapeMismatchError"
            ELSE LET r == CheckAxes(e.tokens, x.shape, 1, env)
                 IN IF r.err # "ok" THEN r.err
                    ELSE IF e.dtype # NoDtype /\ x.dtype # e.dtype
                         THEN "DtypeMismatchError"
                         ELSE CheckEntries(s, d, i + 1, r.env)

\* "ok", or the kind of the first failure
validate(s, d) ==
    IF \E i \in 1..Len(s) : s[i].path \notin Keys(d) THEN "MissingKeyError"
    ELSE CheckEntries(s, d, 1, EmptyEnv)

----------------------------------------------------------------------------
(* TensorDict.filter                                                       *)

Put(d, p, x) == [q \in Keys(d) \cup {p} |-> IF q = p THEN x ELSE d[q]]

\* a filter that gives every declared path an entry
RECURSIVE FilterFrom_synthesizing(_, _, _, _)
FilterFrom_synthesizing(d, s, i, acc) ==
    IF i > Len(s) THEN acc
    ELSE IF s[i].path \in Keys(d)
         THEN FilterFrom_synthesizing(d, s, i + 1, Put(acc, s[i].path, d[s[i].path]))
         ELSE FilterFrom_synthesizing(d, s, i + 1,
                  Put(acc, s[i].path, Tensor(<<>>, NoDtype, "none")))

RECURSIVE FilterFrom(_, _, _, _)
FilterFrom(d, s, i, acc) ==
    IF i > Len(s) THEN acc
    ELSE IF s[i].path \in Keys(d)
         THEN FilterFrom(d, s, i + 1, Put(acc, s[i].path, d[s[i].path]))
         ELSE FilterFrom(d, s, i + 1, acc)

filter(d, s) == FilterFrom(d, s, 1, EmptyDict)

----------------------------------------------------------------------------
(* The model classes of the tests and their hooks                          *)

Arange(shape) == Tensor(shape, "int64", "arange")
Bork == Arange(<<B2, 4>>)

Recurrent(m) == m.cls = "SimpleRecurrentModel"

\* SimpleRecurrentModel and SimpleModel: input_spec, output_spec
input_spec(m) ==
    IF Recurrent(m)
    THEN <<Entry("in", <<Tok("b", 0), Tok("t", 0), Tok("h", 2)>>, NoDtype)>>
    ELSE <<Entry("in", <<Tok("b", 0), Tok("h", 2)>>, NoDtype)>>

output_spec(m) ==
    IF Recurrent(m)
    THEN <<Entry("out", <<Tok("b", 0), Tok("t", 0), Tok("h", 3)>>, NoDtype)>>
    ELSE <<Entry("out", <<Tok("b", 0), Tok("h", 3)>>, NoDtype)>>

\* a Model that does not override prev_state_spec
prev_state_spec_inherited(m) ==
    <<Entry("in", <<Tok("b", 0), Tok("h", 4)>>, NoDtype)>>

\* Model fixes both state specs to SpecDict()
prev_state_spec(m) ==
    IF Recurrent(m)
    THEN <<Entry("in", <<Tok("b", 0), Tok("h", 4)>>, NoDtype)>>
    ELSE EmptySpec

next_state_spec(m) ==
    IF Recurrent(m)
    THEN <<Entry("out", <<Tok("b", 0), Tok("h", 5)>>, NoDtype)>>
    ELSE EmptySpec

NoKwargs == "none"
Kwargs == {NoKwargs, "training"}

HookRaise(exc) == [exc |-> exc, a |-> EmptyDict, b |-> EmptyDict]
HookReturn(a, b) == [exc |-> "none", a |-> a, b |-> b]

\* _unroll of a recurrent subclass.
\*   "test":   SimpleRecurrentModel._unroll, which takes no keyword
\*             arguments, asserts on what it is handed and returns the
\*             tests' tensors
\*   "follow": a computation whose outputs follow the batch and time axes
\*             of its inputs and whose next state follows the batch axis of
\*             its previous state, as the LSTM of the class docstring
\*   "bad":    a computation whose results do not match the specs
SubclassUnroll(m, inputs, prev_state, kwargs) ==
    CASE m.compute = "test" ->
           IF kwargs # NoKwargs THEN HookRaise("TypeError")
           ELSE IF "in" \notin Keys(inputs) \/ "in" \notin Keys(prev_state)
                THEN HookRaise("KeyError")
           ELSE IF \/ inputs["in"] # Arange(<<B, T, 2>>)
                   \/ prev_state["in"] # Arange(<<B, 4>>)
                   \/ "bork" \in Keys(inputs)
                   \/ "bork" \in Keys(prev_state)
                THEN HookRaise("AssertionError")
           ELSE HookReturn([p \in {"out"} |-> Arange(<<B, T, 3>>)],
                           [p \in {"out"} |-> Arange(<<B, 5>>)])
      [] m.compute = "follow" ->
           IF "in" \notin Keys(inputs) \/ "in" \notin Keys(prev_state)
           THEN HookRaise("KeyError")
           ELSE IF Len(inputs["in"].shape) < 2 \/ Len(prev_state["in"].shape) < 1
                THEN HookRaise("RuntimeError")
           ELSE HookReturn(
                  [p \in {"out"} |->
                     Tensor(<<inputs["in"].shape[1], inputs["in"].shape[2], 3>>,
                            "float32", kwargs)],
                  [p \in {"out"} |->
                     Tensor(<<prev_state["in"].shape[1], 5>>, "float32", kwargs)])
      [] OTHER ->
           HookReturn([p \in {"out"} |-> Arange(<<B, T, 2>>)], EmptyDict)

\* _forward of a non-recurrent subclass: "test" is SimpleModel._forward
_forward(m, inputs, kwargs) ==
    CASE m.compute = "test" ->
           IF kwargs # NoKwargs THEN HookRaise("TypeError")
           ELSE IF "in" \notin Keys(inputs) THEN HookRaise("KeyError")
           ELSE IF inputs["in"] # Arange(<<B, 2>>) THEN HookRaise("AssertionError")
           ELSE HookReturn([p \in {"out"} |-> Arange(<<B, 3>>)], EmptyDict)
      [] m.compute = "follow" ->
           IF "in" \notin Keys(inputs) THEN HookRaise("KeyError")
           ELSE IF Len(inputs["in"].shape) < 1 THEN HookRaise("RuntimeError")
           ELSE HookReturn(
                  [p \in {"out"} |->
                     Tensor(<<inputs["in"].shape[1], 3>>, "float32", kwargs)],
                  EmptyDict)
      [] OTHER ->
           HookReturn([p \in {"out"} |-> Arange(<<B, 2>>)], EmptyDict)

\* Model._unroll: del prev_state; outputs = self._forward(inputs, **kwargs);
\* return outputs, TensorDict()
ModelUnroll(m, inputs, prev_state, kwargs) ==
    LET f == _forward(m, inputs, kwargs)
    IN IF f.exc # "none" THEN HookRaise(f.exc) ELSE HookReturn(f.a, EmptyDict)

_unroll(m, inputs, prev_state, kwargs) ==
    IF Recurrent(m)
    THEN SubclassUnroll(m, inputs, prev_state, kwargs)
    ELSE ModelUnroll(m, inputs, prev_state, kwargs)

\* a check hook: "default" is the base class's identity, "strip" a
\* subclass's override that hands on a dictionary without its keys
CheckHook(impl, x) ==
    IF impl = "default"
    THEN [exc |-> "none", a |-> x]
    ELSE [exc |-> "none", a |-> EmptyDict]

\* Model._check_inputs, Model._check_outputs
_check_inputs(m, inputs) == CheckHook(m.pre, inputs)
_check_outputs(m, outputs) == CheckHook(m.post, outputs)

\* RecurrentModel._check_inputs_and_prev_state (identity), a subclass's
\* override of it, and Model's override, which leaves prev_state alone
_check_inputs_and_prev_state(m, inputs, prev_state) ==
    LET c == IF Recurrent(m) THEN CheckHook(m.pre, inputs) ELSE _check_inputs(m, inputs)
    IN IF c.exc # "none" THEN HookRaise(c.exc) ELSE HookReturn(c.a, prev_state)

_check_outputs_and_next_state(m, outputs, next_state) ==
    LET c == IF Recurrent(m) THEN CheckHook(m.post, outputs) ELSE _check_outputs(m, outputs)
    IN IF c.exc # "none" THEN HookRaise(c.exc) ELSE HookReturn(c.a, next_state)

\* the names self.<name> finds: what the classes of the instance define
\* (RecurrentModel or Model, ModelIO, the torch classes, the subclass) and
\* what the instance was given
Attributes(m) ==
    {"input_spec", "output_spec", "prev_state_spec", "next_state_spec",
     "initial_state", "_initial_state", "unroll", "_unroll",
     "_check_inputs_and_prev_state", "_check_outputs_and_next_state",
     "_config", "config", "save", "load", "state_dict", "load_state_dict"}
    \cup DOMAIN m.attrs

\* self.<name> for a spec
GetAttr(m, name) ==
    IF name \notin Attributes(m) THEN [exc |-> "AttributeError", value |-> EmptySpec]
    ELSE [exc |-> "none",
          value |-> CASE name = "input_spec" -> input_spec(m)
                      [] name = "output_spec" -> output_spec(m)
                      [] name = "prev_state_spec" -> prev_state_spec(m)
                      [] name = "next_state_spec" -> next_state_spec(m)
                      [] OTHER -> EmptySpec]

\* tree.map_structure(lambda spec: torch.zeros(spec.shape, dtype=spec.dtype), s)
\* with the callers' batch size on the axes the spec leaves free
ZerosOf(s) ==
    [p \in SpecKeys(s) |->
        LET e == CHOOSE x \in {s[i] : i \in 1..Len(s)} : x.path = p
        IN Tensor([j \in 1..Len(e.tokens) |->
                      IF e.tokens[j].fixed # 0 THEN e.tokens[j].fixed ELSE B],
                  IF e.dtype = NoDtype THEN "float32" ELSE e.dtype, "zeros")]

\* TorchRecurrentModel._initial_state, which a subclass inherits when it
\* does not override it: zeros for self.initial_state_spec
TorchRecurrentModel_initial_state(m) ==
    LET s == GetAttr(m, "initial_state_spec")
    IN IF s.exc # "none" THEN HookRaise(s.exc)
       ELSE HookReturn(ZerosOf(s.value), EmptyDict)

\* _initial_state: the exception it raises or the state it returns (in a).
\* Model returns TensorDict(); a recurrent subclass inherits the hook of
\* TorchRecurrentModel ("inherited") or overrides it to return zeros shaped
\* as its next_state_spec ("next") or, as the docstring of
\* TorchRecurrentModel asks, as its prev_state_spec ("prev")
_initial_state(m) ==
    IF ~Recurrent(m) THEN HookReturn(EmptyDict, EmptyDict)
    ELSE IF m.init = "inherited" THEN TorchRecurrentModel_initial_state(m)
    ELSE IF m.init = "next"
         THEN HookReturn([p \in {"out"} |-> Tensor(<<B, 5>>, "float32", "zeros")],
                         EmptyDict)
         ELSE HookReturn([p \in {"in"} |-> Tensor(<<B, 4>>, "float32", "zeros")],
                         EmptyDict)

----------------------------------------------------------------------------
(* RecurrentModel.initial_state and RecurrentModel.unroll                  *)

NoArgs == [inputs |-> EmptyDict, prev_state |-> EmptyDict, kwargs |-> NoKwargs]

\* what a call leaves behind: the exception it raised or "none", the pair it
\* returned, the functions it invoked in order, what it handed to _unroll
\* and what it handed to _check_outputs_and_next_state
Raised(exc, calls, handed, checked) ==
    [exc |-> exc, outputs |-> EmptyDict, next_state |-> EmptyDict,
     calls |-> calls, handed |-> handed, checked |-> checked]

Returned(outputs, next_state, calls, handed, checked) ==
    [exc |-> "none", outputs |-> outputs, next_state |-> next_state,
     calls |-> calls, handed |-> handed, checked |-> checked]

NoPair == <<EmptyDict, EmptyDict>>

\* initial_state without its check of the hook's result
initial_state_unchecked(m) ==
    LET h == _initial_state(m)
    IN IF h.exc # "none" THEN Raised(h.exc, <<"_initial_state">>, NoArgs, NoPair)
       ELSE Returned(EmptyDict, h.a,
                     <<"_initial_state", "next_state_spec.validate">>, NoArgs, NoPair)

initial_state(m) ==
    LET h == _initial_state(m)
        v == validate(next_state_spec(m), h.a)
        calls == <<"_initial_state", "next_state_spec.validate">>
    IN IF h.exc # "none" THEN Raised(h.exc, <<"_initial_state">>, NoArgs, NoPair)
       ELSE IF v # "ok" THEN Raised(v, calls, NoArgs, NoPair)
       ELSE Returned(EmptyDict, h.a, calls, NoArgs, NoPair)

AfterUnroll(m, u, calls, handed) ==
    LET c5 == Append(calls, "output_spec.validate")
        v3 == validate(output_spec(m), u.a)
        c6 == Append(c5, "next_state_spec.validate")
        v4 == validate(next_state_spec(m), u.b)
        c7 == Append(c6, "_check_outputs_and_next_state")
        post == _check_outputs_and_next_state(m, u.a, u.b)
    IN IF v3 # "ok" THEN Raised(v3, c5, handed, NoPair)
       ELSE IF v4 # "ok" THEN Raised(v4, c6, handed, NoPair)
       ELSE IF post.exc # "none" THEN Raised(post.exc, c7, handed, <<u.a, u.b>>)
       ELSE Returned(post.a, post.b, c7, handed, <<u.a, u.b>>)

\* lines 156-159 without the two filter calls
AfterValidate_unfiltered(m, inputs, prev_state, kwargs, calls) ==
    LET c3 == calls \o <<"inputs.filter", "prev_state.filter",
                         "_check_inputs_and_prev_state">>
        pre == _check_inputs_and_prev_state(m, inputs, prev_state)
        c4 == Append(c3, "_unroll")
        handed == [inputs |-> pre.a, prev_state |-> pre.b, kwargs |-> kwargs]
        u == _unroll(m, pre.a, pre.b, kwargs)
    IN IF pre.exc # "none" THEN Raised(pre.exc, c3, NoArgs, NoPair)
       ELSE IF u.exc # "none" THEN Raised(u.exc, c4, handed, NoPair)
       ELSE AfterUnroll(m, u, c4, handed)

AfterValidate(m, inputs, prev_state, kwargs, calls) ==
    LET fin == filter(inputs, input_spec(m))
        fps == filter(prev_state, prev_state_spec(m))
        c3 == calls \o <<"inputs.filter", "prev_state.filter",
                         "_check_inputs_and_prev_state">>
        pre == _check_inputs_and_prev_state(m, fin, fps)
        c4 == Append(c3, "_unroll")
        handed == [inputs |-> pre.a, prev_state |-> pre.b, kwargs |-> kwargs]
        u == _unroll(m, pre.a, pre.b, kwargs)
    IN IF pre.exc # "none" THEN Raised(pre.exc, c3, NoArgs, NoPair)
       ELSE IF u.exc # "none" THEN Raised(u.exc, c4, handed, NoPair)
       ELSE AfterUnroll(m, u, c4, handed)

\* unroll checking prev_state against input_spec
unroll_one_spec(m, inputs, prev_state, kwargs) ==
    LET c1 == <<"input_spec.validate">>
        v1 == validate(input_spec(m), inputs)
        c2 == Append(c1, "prev_state_spec.validate")
        v2 == validate(input_spec(m), prev_state)
    IN IF v1 # "ok" THEN Raised(v1, c1, NoArgs, NoPair)
       ELSE IF v2 # "ok" THEN Raised(v2, c2, NoArgs, NoPair)
       ELSE AfterValidate(m, inputs, prev_state, kwargs, c2)

\* unroll without the check of prev_state
unroll_prev_unchecked(m, inputs, prev_state, kwargs) ==
    LET c1 == <<"input_spec.validate">>
        v1 == validate(input_spec(m), inputs)
    IN IF v1 # "ok" THEN Raised(v1, c1, NoArgs, NoPair)
       ELSE AfterValidate(m, inputs, prev_state, kwargs,
                          Append(c1, "prev_state_spec.validate"))

unroll(m, inputs, prev_state, kwargs) ==
    LET c1 == <<"input_spec.validate">>
        v1 == validate(input_spec(m), inputs)
        c2 == Append(c1, "prev_state_spec.validate")
        v2 == validate(prev_state_spec(m), prev_state)
    IN IF v1 # "ok" THEN Raised(v1, c1, NoArgs, NoPair)
       ELSE IF v2 # "ok" THEN Raised(v2, c2, NoArgs, NoPair)
       ELSE AfterValidate(m, inputs, prev_state, kwargs, c2)

\* an unroll that keeps the state it returned in an attribute of the
\* instance and computes from it, not from the caller's prev_state
InvokeUnroll_stateful(m, inputs, prev_state, kwargs) ==
    LET used == IF "_state" \in DOMAIN m.attrs THEN m.attrs["_state"] ELSE prev_state
        r == unroll(m, inputs, used, kwargs)
        kept == [a \in {"_name", "_state"} |->
                    IF a = "_name" THEN m.attrs["_name"] ELSE r.next_state]
    IN [self |-> IF r.exc = "none" THEN [m EXCEPT !.attrs = kept] ELSE m,
        res |-> r]

\* one call on an instance: the result, and the instance after the call.
\* No statement of unroll or initial_state assigns an attribute of self.
InvokeUnroll(m, inputs, prev_state, kwargs) ==
    [self |-> m, res |-> unroll(m, inputs, prev_state, kwargs)]

InvokeInitialState(m) ==
    [self |-> m, res |-> initial_state(m)]

----------------------------------------------------------------------------
(* TorchModelIO.save and TorchModelIO.load                                 *)

\* values a parameter takes
MaxValue == 3
Values == 1..MaxValue

\* IOTorchModel: self.weights = nn.Parameter(torch.tensor([value]))
ParamNames == {"weights"}
\* m = IOTorchModel(value=1.0), lo = IOTorchModel(value=2.0)
IOModels == {"m", "lo"}
\* paths in the temporary directory; the tests use "bork"
IOPaths == {"bork", "other"}

NoCheckpoint == [exists |-> FALSE, data |-> <<>>]

\* self.state_dict(): the parameters by name
state_dict(params) == [n \in DOMAIN params |-> params[n]]

\* torch.save(obj, path): the file holds what obj is now
torch_save(files, obj, path) ==
    [files EXCEPT ![path] = [exists |-> TRUE, data |-> obj]]

\* torch.load(path)
torch_load(files, path) ==
    IF files[path].exists
    THEN [exc |-> "none", data |-> files[path].data]
    ELSE [exc |-> "FileNotFoundError", data |-> <<>>]

\* self.load_state_dict(state_dict), strict: the names must be the module's
load_state_dict(params, sd) ==
    IF DOMAIN sd = DOMAIN params
    THEN [exc |-> "none", params |-> [n \in DOMAIN params |-> sd[n]]]
    ELSE [exc |-> "RuntimeError", params |-> params]

\* save(path): torch.save(self.state_dict(), path)
save(params, files, path) == torch_save(files, state_dict(params), path)

\* a load that reads the checkpoint and does not put it into the module
load_discarding(params, files, path) ==
    LET l == torch_load(files, path)
    IN [exc |-> l.exc, params |-> params]

\* load(path): self.load_state_dict(torch.load(path))
load(params, files, path) ==
    LET l == torch_load(files, path)
    IN IF l.exc # "none" THEN [exc |-> l.exc, params |-> params]
       ELSE load_state_dict(params, l.data)

----------------------------------------------------------------------------
(* The callers: sequences of calls on one model instance                   *)

VARIABLES
    self,   \* the model instance: its class, its hooks, its attributes
    seq,    \* per sequence of calls: the state it carries forward, if any
    last,   \* the latest call on the instance and what it left behind
    ops,    \* a dictionary, a spec and the result of validate or filter on them
    io      \* the parameters of the models saved and loaded, and the files

vars == <<self, seq, last, ops, io>>

Seqs == {1, 2}

\* RecurrentModel.__init__: self._name = name or self.__class__.__name__
Construct(cls, compute, pre, post, init) ==
    [cls |-> cls, compute |-> compute, pre |-> pre, post |-> post, init |-> init,
     attrs |-> [a \in {"_name"} |-> cls]]

Computes == {"test", "follow", "bad"}
CheckImpls == {"default", "strip"}

Instances ==
    {Construct("SimpleRecurrentModel", c, pr, po, i) :
        c \in Computes, pr \in CheckImpls, po \in CheckImpls,
        i \in {"inherited", "next", "prev"}}
    \cup {Construct("SimpleModel", c, pr, po, "next") :
        c \in Computes, pr \in CheckImpls, po \in CheckImpls}

\* the instance as its constructor left it
Fresh(m) == Construct(m.cls, m.compute, m.pre, m.post, m.init)

D1(p, x) == [q \in {p} |-> x]
WithBork(d) == Put(d, "bork", Bork)

\* what the callers pass as inputs and as prev_state
InputChoices(m) ==
    IF Recurrent(m)
    THEN {D1("in", Arange(<<B, T, 2>>)), WithBork(D1("in", Arange(<<B, T, 2>>))),
          D1("in", Arange(<<B2, T, 2>>)), D1("in", Arange(<<B, T, 3>>))}
    ELSE {D1("in", Arange(<<B, 2>>)), WithBork(D1("in", Arange(<<B, 2>>))),
          D1("in", Arange(<<B2, 2>>)), D1("in", Arange(<<B, 3>>))}

PrevChoices(m) ==
    IF Recurrent(m)
    THEN {D1("in", Arange(<<B, 4>>)), WithBork(D1("in", Arange(<<B, 4>>))),
          D1("in", Arange(<<B2, 4>>)), D1("out", Arange(<<B, 5>>))}
    ELSE {EmptyDict, D1("in", Arange(<<B, 4>>)), D1("bork", Bork)}

NoCall ==
    [op |-> "none", inputs |-> EmptyDict, prev_state |-> EmptyDict,
     kwargs |-> NoKwargs, threaded |-> FALSE, res |-> Raised("none", <<>>, NoArgs, NoPair)]

NoOps == [op |-> "none", d |-> EmptyDict, s |-> EmptySpec, err |-> "ok", out |-> EmptyDict]

NoIOOp == [kind |-> "none", model |-> "m", path |-> "bork", exc |-> "none",
           before |-> [n \in ParamNames |-> 1]]

\* no model saved or loaded: no file, and, for each path, whose parameters
\* the latest save to it wrote and what they were then
NoIO ==
    [params |-> [x \in IOModels |-> [n \in ParamNames |-> 1]],
     files |-> [f \in IOPaths |-> NoCheckpoint],
     snap |-> [f \in IOPaths |-> [by |-> "none", params |-> <<>>]],
     op |-> NoIOOp]

Init ==
    /\ self \in Instances
    /\ seq = [t \in Seqs |-> [has |-> FALSE, state |-> EmptyDict]]
    /\ last = NoCall
    /\ ops = NoOps
    /\ io = NoIO

\* state = ..., the caller's assignment: it happens when the call returns and
\* does not when the call raises
Carry(t, r) ==
    IF r.exc = "none"
    THEN [seq EXCEPT ![t] = [has |-> TRUE, state |-> r.next_state]]
    ELSE seq

\* state = model.initial_state()
CallInitialState(t) ==
    /\ t \in Seqs
    /\ LET i == InvokeInitialState(self)
       IN /\ self' = i.self
          /\ last' = [op |-> "initial_state", inputs |-> EmptyDict,
                      prev_state |-> EmptyDict, kwargs |-> NoKwargs,
                      threaded |-> FALSE, res |-> i.res]
          /\ seq' = Carry(t, i.res)
    /\ UNCHANGED <<ops, io>>

UnrollWith(t, inputs, prev_state, kwargs, threaded) ==
    LET i == InvokeUnroll(self, inputs, prev_state, kwargs)
    IN /\ self' = i.self
       /\ last' = [op |-> "unroll", inputs |-> inputs,
                   prev_state |-> prev_state, kwargs |-> kwargs,
                   threaded |-> threaded, res |-> i.res]
       /\ seq' = Carry(t, i.res)

\* output, state = model.unroll(inputs, prev_state), on dictionaries of the
\* caller's making
CallUnroll(t) ==
    /\ t \in Seqs
    /\ \E inputs \in InputChoices(self), prev_state \in PrevChoices(self),
          kwargs \in Kwargs :
          UnrollWith(t, inputs, prev_state, kwargs, FALSE)
    /\ UNCHANGED <<ops, io>>

\* output, state = model.unroll(inputs, state), on the state the sequence's
\* previous call returned
CallUnrollThreaded(t) ==
    /\ seq[t].has
    /\ \E inputs \in InputChoices(self), kwargs \in Kwargs :
          UnrollWith(t, inputs, seq[t].state, kwargs, TRUE)
    /\ UNCHANGED <<ops, io>>

Next ==
    \E t \in Seqs :
        \/ CallInitialState(t)
        \/ CallUnroll(t)
        \/ CallUnrollThreaded(t)

Spec == Init /\ [][Next]_vars


----------------------------------------------------------------------------
(* validate and filter on dictionaries and specs of any make               *)

\* axes of a tensor, tokens of a Spec
MaxRank == 2

Dims == {B2, B}
Dtypes == {"float32", "int64"}
Tokens == {Tok("b", 0), Tok("h", B2)}

SeqsUpTo(S, n) == UNION {[1..k -> S] : k \in 1..n}

OpsTensors(dts) == {Tensor(sh, dt, "x") : sh \in SeqsUpTo(Dims, MaxRank), dt \in dts}

\* dictionaries over the paths "in" and "st"
OpsDicts ==
    {EmptyDict}
    \cup {D1("in", x) : x \in OpsTensors(Dtypes)}
    \cup {D1("st", y) : y \in OpsTensors({"float32"})}
    \cup {Put(D1("in", x), "st", y) :
            x \in OpsTensors(Dtypes), y \in OpsTensors({"float32"})}

\* specs over the same paths, in either declaration order
OpsEntries(p) ==
    {Entry(p, tk, dt) : tk \in SeqsUpTo(Tokens, MaxRank),
                        dt \in IF p = "in" THEN {NoDtype, "float32"} ELSE {NoDtype}}

OpsSpecs ==
    {EmptySpec}
    \cup {<<e>> : e \in OpsEntries("in") \cup OpsEntries("st")}
    \cup {<<e, f>> : e \in OpsEntries("in"), f \in OpsEntries("st")}
    \cup {<<f, e>> : e \in OpsEntries("in"), f \in OpsEntries("st")}

InitOps ==
    /\ self = Construct("SimpleRecurrentModel", "test", "default", "default", "next")
    /\ seq = [t \in Seqs |-> [has |-> FALSE, state |-> EmptyDict]]
    /\ last = NoCall
    /\ \E d \in OpsDicts, s \in OpsSpecs :
          ops = [op |-> "none", d |-> d, s |-> s, err |-> "ok", out |-> EmptyDict]
    /\ io = NoIO

\* s.validate(d)
DoValidate ==
    /\ ops.op = "none"
    /\ ops' = [ops EXCEPT !.op = "validate", !.err = validate(ops.s, ops.d)]
    /\ UNCHANGED <<self, seq, last, io>>

\* d.filter(s)
DoFilter ==
    /\ ops.op = "none"
    /\ ops' = [ops EXCEPT !.op = "filter", !.out = filter(ops.d, ops.s)]
    /\ UNCHANGED <<self, seq, last, io>>

NextOps == DoValidate \/ DoFilter

SpecOps == InitOps /\ [][NextOps]_vars

----------------------------------------------------------------------------
(* Models of one configuration saving and loading their parameters         *)

\* m = IOTorchModel(value=...), lo = IOTorchModel(value=...), in an empty
\* temporary directory
InitIO ==
    /\ self = Construct("SimpleModel", "test", "default", "default", "next")
    /\ seq = [t \in Seqs |-> [has |-> FALSE, state |-> EmptyDict]]
    /\ last = NoCall
    /\ ops = NoOps
    /\ \E ps \in [IOModels -> [ParamNames -> Values]] :
          io = [NoIO EXCEPT !.params = ps]

\* x.save(path)
Save(x, path) ==
    /\ x \in IOModels /\ path \in IOPaths
    /\ io' = [io EXCEPT
                !.files = save(io.params[x], io.files, path),
                !.snap[path] = [by |-> x, params |-> io.params[x]],
                !.op = [kind |-> "save", model |-> x, path |-> path,
                        exc |-> "none", before |-> io.params[x]]]
    /\ UNCHANGED <<self, seq, last, ops>>

\* x.load(path)
Load(x, path) ==
    /\ x \in IOModels /\ path \in IOPaths
    /\ LET l == load(io.params[x], io.files, path)
       IN io' = [io EXCEPT
                   !.params[x] = l.params,
                   !.op = [kind |-> "load", model |-> x, path |-> path,
                           exc |-> l.exc, before |-> io.params[x]]]
    /\ UNCHANGED <<self, seq, last, ops>>

\* training changes a parameter of x
Train(x) ==
    /\ x \in IOModels
    /\ \E n \in ParamNames, v \in Values :
          /\ v # io.params[x][n]
          /\ io' = [io EXCEPT
                      !.params[x][n] = v,
                      !.op = [kind |-> "train", model |-> x, path |-> "bork",
                              exc |-> "none", before |-> io.params[x]]]
    /\ UNCHANGED <<self, seq, last, ops>>

NextIO ==
    \E x \in IOModels :
        \/ \E path \in IOPaths : Save(x, path)
        \/ \E path \in IOPaths : Load(x, path)
        \/ Train(x)

SpecIO == InitIO /\ [][NextIO]_vars

----------------------------------------------------------------------------
(* The claims                                                              *)

Res == last.res
InCalls(f) == \E i \in 1..Len(Res.calls) : Res.calls[i] = f
Pos(f) == CHOOSE i \in 1..Len(Res.calls) : Res.calls[i] = f
InputsOk == validate(input_spec(self), last.inputs) = "ok"
PrevStateOk == validate(prev_state_spec(self), last.prev_state) = "ok"
Hooks == {"_check_inputs_and_prev_state", "_unroll", "_check_outputs_and_next_state"}

\* C1: when inputs and prev_state pass validation and the pre-hook is the
\* default identity, _unroll is handed inputs whose keys are exactly the
\* paths of input_spec and a prev_state whose keys are exactly the paths of
\* prev_state_spec, each kept key with the caller's tensor; "bork" is gone.
C1_UnrollSeesDeclaredKeysOnly ==
    (last.op = "unroll" /\ InputsOk /\ PrevStateOk /\ self.pre = "default") =>
        /\ InCalls("_unroll")
        /\ Keys(Res.handed.inputs) = SpecKeys(input_spec(self))
        /\ Keys(Res.handed.prev_state) = SpecKeys(prev_state_spec(self))
        /\ \A k \in Keys(Res.handed.inputs) : Res.handed.inputs[k] = last.inputs[k]
        /\ \A k \in Keys(Res.handed.prev_state) :
              Res.handed.prev_state[k] = last.prev_state[k]
        /\ "bork" \notin Keys(Res.handed.inputs) \cup Keys(Res.handed.prev_state)

C1_Witness ==
    /\ last.op = "unroll" /\ InputsOk /\ PrevStateOk /\ self.pre = "default"
    /\ "bork" \in Keys(last.inputs) /\ "bork" \in Keys(last.prev_state)
    /\ InCalls("_unroll")
    /\ Res.exc = "none"

\* C2: the hooks and _unroll are invoked only after both validations have
\* passed; when either validation fails, unroll raises that validator's
\* error, returns nothing and invokes neither hook nor _unroll.
C2_ValidateBeforeHooks ==
    last.op = "unroll" =>
        /\ \A h \in Hooks : InCalls(h) =>
              /\ InputsOk /\ PrevStateOk
              /\ InCalls("input_spec.validate") /\ InCalls("prev_state_spec.validate")
              /\ Pos("input_spec.validate") < Pos(h)
              /\ Pos("prev_state_spec.validate") < Pos(h)
        /\ ~InputsOk =>
              /\ Res.exc = validate(input_spec(self), last.inputs)
              /\ Res.calls = <<"input_spec.validate">>
        /\ (InputsOk /\ ~PrevStateOk) =>
              /\ Res.exc = validate(prev_state_spec(self), last.prev_state)
              /\ Res.calls = <<"input_spec.validate", "prev_state_spec.validate">>
        /\ ~(InputsOk /\ PrevStateOk) =>
              /\ Res.exc # "none"
              /\ Res.outputs = EmptyDict /\ Res.next_state = EmptyDict
              /\ Res.handed = NoArgs
              /\ \A h \in Hooks : ~InCalls(h)

C2_Witness ==
    /\ last.op = "unroll" /\ InputsOk /\ ~PrevStateOk
    /\ Res.exc = "MissingKeyError"
    /\ Res.calls = <<"input_spec.validate", "prev_state_spec.validate">>

\* C3: whatever the hooks, every pair unroll returns conforms to output_spec
\* and next_state_spec.
C3_ReturnedPairConforms ==
    (last.op = "unroll" /\ Res.exc = "none") =>
        /\ validate(output_spec(self), Res.outputs) = "ok"
        /\ validate(next_state_spec(self), Res.next_state) = "ok"

\* C4: initial_state returns the hook's result unchanged when it passes
\* next_state_spec.validate, and raises the validator's error, returning no
\* state, when it does not; it returns nothing that fails the validation.
C4_InitialStateValidated ==
    last.op = "initial_state" =>
        LET h == _initial_state(self)
            v == validate(next_state_spec(self), h.a)
        IN /\ (h.exc = "none" /\ v = "ok") =>
                  (Res.exc = "none" /\ Res.next_state = h.a)
           /\ (h.exc = "none" /\ v # "ok") =>
                  (Res.exc = v /\ Res.next_state = EmptyDict)
           /\ Res.exc = "none" => validate(next_state_spec(self), Res.next_state) = "ok"

C4_Witness ==
    /\ last.op = "initial_state"
    /\ _initial_state(self).exc = "none"
    /\ validate(next_state_spec(self), _initial_state(self).a) = "MissingKeyError"
    /\ Res.exc = "MissingKeyError"

\* C5: the state a call returned passes prev_state_spec validation when it
\* is the prev_state of the sequence's next unroll call.
C5_StateThreading ==
    (last.op = "unroll" /\ last.threaded) => PrevStateOk

\* unroll keeps no hidden state.  No call changes the instance, every
\* unroll returns what the same call returns on the instance as constructed
\* (its sequence running alone, whatever calls of the other sequence came
\* between), and an unroll with the arguments of the call before it returns
\* the same result.
C6_Alone ==
    /\ self = Fresh(self)
    /\ last.op = "unroll" =>
          Res = unroll(Fresh(self), last.inputs, last.prev_state, last.kwargs)

C6_Repeat ==
    (/\ last.op = "unroll" /\ last'.op = "unroll"
     /\ last'.inputs = last.inputs
     /\ last'.prev_state = last.prev_state
     /\ last'.kwargs = last.kwargs) => last'.res = last.res

\* C6: in every state the instance is as constructed and the latest unroll
\* returned what it returns alone, and in every step a repeated unroll
\* returns the result of the call before it.
C6_NoHiddenState == [](C6_Alone) /\ [][C6_Repeat]_vars

C6_Witness ==
    /\ seq[1].has /\ seq[2].has
    /\ seq[1].state # seq[2].state
    /\ last.op = "unroll"
    /\ Res.exc = "none"
    /\ Res.next_state = seq[2].state

\* C7: a non-recurrent Model with the default _check_inputs and
\* _check_outputs returns the empty dictionary from initial_state; on
\* inputs that conform, unroll does not fail on the state side whatever
\* prev_state is, returns (_forward(filtered inputs), empty dictionary) when
\* _forward's outputs pass output_spec, and its result is the same for every
\* prev_state.
C7_ModelIgnoresState ==
    (~Recurrent(self) /\ self.pre = "default" /\ self.post = "default") =>
        /\ last.op = "initial_state" => (Res.exc = "none" /\ Res.next_state = EmptyDict)
        /\ (last.op = "unroll" /\ InputsOk) =>
              LET f == _forward(self, filter(last.inputs, input_spec(self)), last.kwargs)
                  vo == validate(output_spec(self), f.a)
              IN /\ PrevStateOk
                 /\ InCalls("_unroll")
                 /\ Res.handed.prev_state = EmptyDict
                 /\ f.exc # "none" => Res.exc = f.exc
                 /\ (f.exc = "none" /\ vo # "ok") => Res.exc = vo
                 /\ (f.exc = "none" /\ vo = "ok") =>
                       /\ Res.exc = "none"
                       /\ Res.outputs = f.a
                       /\ Res.next_state = EmptyDict
                 /\ \A p \in PrevChoices(self) :
                       unroll(self, last.inputs, p, last.kwargs) = Res

C7_Witness ==
    /\ ~Recurrent(self) /\ self.pre = "default" /\ self.post = "default"
    /\ last.op = "unroll" /\ InputsOk
    /\ last.prev_state # EmptyDict
    /\ "bork" \in Keys(last.inputs)
    /\ Res.exc = "none"
    /\ Res.outputs # EmptyDict

\* both specs declare the free symbol b as the first axis of "in"
SharesBatchSymbol ==
    /\ \E i \in 1..Len(input_spec(self)) :
          /\ input_spec(self)[i].path = "in"
          /\ input_spec(self)[i].tokens[1] = Tok("b", 0)
    /\ \E i \in 1..Len(prev_state_spec(self)) :
          /\ prev_state_spec(self)[i].path = "in"
          /\ prev_state_spec(self)[i].tokens[1] = Tok("b", 0)

BatchesDiffer ==
    /\ last.op = "unroll" /\ SharesBatchSymbol
    /\ InputsOk /\ PrevStateOk
    /\ last.inputs["in"].shape[1] # last.prev_state["in"].shape[1]

\* C8 as claimed: inputs and prev_state that each conform but give the
\* shared symbol b different sizes are rejected with a shape mismatch before
\* _unroll runs.
C8_CrossDictionaryBatch ==
    BatchesDiffer => (Res.exc = "ShapeMismatchError" /\ ~InCalls("_unroll"))

\* C8 as amended: inputs and prev_state are validated by separate validate
\* calls, each with its own bindings, so such a call passes both
\* validations, reaches the pre-hook and, the pre-hook being the default,
\* _unroll, which is handed the two different batch sizes.
C8_PerDictionaryBinding ==
    BatchesDiffer =>
        /\ InCalls("_check_inputs_and_prev_state")
        /\ self.pre = "default" =>
              /\ InCalls("_unroll")
              /\ Res.handed.inputs["in"].shape[1] = last.inputs["in"].shape[1]
              /\ Res.handed.prev_state["in"].shape[1] = last.prev_state["in"].shape[1]
              /\ Res.handed.inputs["in"].shape[1] # Res.handed.prev_state["in"].shape[1]

C8_Witness ==
    /\ BatchesDiffer /\ self.pre = "default"
    /\ last.inputs["in"].shape[1] = B /\ last.prev_state["in"].shape[1] = B2
    /\ InCalls("_unroll")
    /\ Res.exc = "none"

----------------------------------------------------------------------------
(* validate and filter by themselves                                       *)

\* the free symbols' occurrences in ops.s: <<entry, axis>>
FreeOcc ==
    UNION {{<<i, a>> : a \in {x \in 1..Len(ops.s[i].tokens) : ops.s[i].tokens[x].fixed = 0}} :
             i \in 1..Len(ops.s)}
SymAt(o) == ops.s[o[1]].tokens[o[2]].sym
DimAt(o) == ops.d[ops.s[o[1]].path].shape[o[2]]

SameSymbolAtTwoPaths ==
    \E o1, o2 \in FreeOcc : o1[1] # o2[1] /\ SymAt(o1) = SymAt(o2)
PathsPresent == SpecKeys(ops.s) \subseteq Keys(ops.d)
AritiesMatch ==
    \A i \in 1..Len(ops.s) : Len(ops.d[ops.s[i].path].shape) = Len(ops.s[i].tokens)
FixedSizesMatch ==
    \A i \in 1..Len(ops.s) : \A a \in 1..Len(ops.s[i].tokens) :
        ops.s[i].tokens[a].fixed # 0 =>
            ops.d[ops.s[i].path].shape[a] = ops.s[i].tokens[a].fixed
DtypesMatch ==
    \A i \in 1..Len(ops.s) :
        ops.s[i].dtype # NoDtype => ops.d[ops.s[i].path].dtype = ops.s[i].dtype
AxesAgree ==
    \A o1, o2 \in FreeOcc : SymAt(o1) = SymAt(o2) => DimAt(o1) = DimAt(o2)

C9_Case ==
    /\ ops.op = "validate"
    /\ SameSymbolAtTwoPaths
    /\ PathsPresent /\ AritiesMatch /\ FixedSizesMatch

\* C9 as claimed: with all declared paths present and arities and fixed
\* sizes matching, a SpecDict declaring one free symbol at two paths fails
\* with ShapeMismatchError when the symbol's axes differ and succeeds when
\* they agree.
C9_SymbolConsistency ==
    C9_Case =>
        /\ ~AxesAgree => ops.err = "ShapeMismatchError"
        /\ AxesAgree => ops.err = "ok"

\* C9 as amended: the same, when the declared dtypes match as well.
C9_SymbolConsistencyGivenDtypes ==
    (C9_Case /\ DtypesMatch) =>
        /\ ~AxesAgree => ops.err = "ShapeMismatchError"
        /\ AxesAgree => ops.err = "ok"

C9_Witness ==
    /\ C9_Case /\ DtypesMatch
    /\ ~AxesAgree
    /\ ops.s[1].dtype # NoDtype
    /\ \A i \in 1..Len(ops.s) : \A a, b \in 1..Len(ops.s[i].tokens) :
          (ops.s[i].tokens[a].fixed = 0 /\ ops.s[i].tokens[b].fixed = 0) =>
              ops.d[ops.s[i].path].shape[a] = ops.d[ops.s[i].path].shape[b]
    /\ ops.err = "ShapeMismatchError"

\* C10: the keys of filter's result are exactly the keys of the dictionary
\* that the spec declares; no key is added, no undeclared key is kept, and
\* each kept key holds the dictionary's tensor.
C10_FilterIsIntersection ==
    ops.op = "filter" =>
        /\ Keys(ops.out) = Keys(ops.d) \cap SpecKeys(ops.s)
        /\ \A k \in Keys(ops.out) : ops.out[k] = ops.d[k]

C10_Witness ==
    /\ ops.op = "filter"
    /\ SpecKeys(ops.s) \ Keys(ops.d) # {}
    /\ Keys(ops.d) \ SpecKeys(ops.s) # {}
    /\ Keys(ops.out) = {}

----------------------------------------------------------------------------
(* save and load                                                           *)

\* C11: after a save to a path and a load of that path by a model of the
\* same configuration, the loading model's parameters are the saving model's
\* as they were at the time of the save, whatever they were before the load
\* and whatever the saving model's have become since.
C11_SaveLoadRoundTrip ==
    (/\ io.op.kind = "load"
     /\ io.snap[io.op.path].by # "none") =>
        /\ io.op.exc = "none"
        /\ io.params[io.op.model] = io.snap[io.op.path].params

C11_Witness ==
    /\ io.op.kind = "load" /\ io.op.exc = "none"
    /\ io.snap[io.op.path].by \notin {"none", io.op.model}
    /\ io.op.before # io.snap[io.op.path].params
    /\ io.params[io.snap[io.op.path].by] # io.snap[io.op.path].params
    /\ io.params[io.op.model] = io.snap[io.op.path].params

----------------------------------------------------------------------------
(* The inherited _initial_state                                            *)

\* C12: for a recurrent subclass that does not override _initial_state,
\* initial_state() completes without error and returns one all-zero tensor
\* per path of the model's state spec, which passes the next_state_spec
\* validation.
C12_DefaultInitialState ==
    (last.op = "initial_state" /\ self.init = "inherited") =>
        /\ Res.exc = "none"
        /\ Keys(Res.next_state) = SpecKeys(next_state_spec(self))
        /\ \A p \in Keys(Res.next_state) : Res.next_state[p].data = "zeros"
        /\ validate(next_state_spec(self), Res.next_state) = "ok"

====
